---- MODULE Spec2Model ----
(***************************************************************************)
(* A model of src/src/svc.rs: the Service trait, its forwarding impls for  *)
(* Arc<S>, &'static S and Box<S>, the hidden DynService adapter and the    *)
(* type-erased BoxService handle.                                          *)
(*                                                                         *)
(* The state is what a caller program and the heap hold:                   *)
(*   insts   the implementer instances (the values of the concrete type S) *)
(*   allocs  the Arc<dyn DynService> allocations behind BoxService.inner   *)
(*   vals    the service values the caller holds (a bare S, an Arc<S>, a   *)
(*           &'static S, a Box<S> or a BoxService)                         *)
(*   futs    the operations returned by serve, in progress or completed    *)
(*   nBoxed  how often boxed() was called on a BoxService (history)        *)
(***************************************************************************)
EXTENDS Integers, Sequences, FiniteSets, TLC

VARIABLES insts, allocs, vals, futs, nBoxed

vars == <<insts, allocs, vals, futs, nBoxed>>

(***************************************************************************)
(* Bounds of the model.                                                    *)
(***************************************************************************)
MaxAllocs == 2
MaxFuts == 2
MaxClones == 3
MaxCalls == 2
MaxSuspend == 1
MaxReqLen == 1
MaxBoxedCalls == 2
\* Scenario C of the specification: ten handles on one implementer.
ScnVals == 10

Kinds == {"Pong", "ErrLen", "Counter", "Flaky"}
PureKinds == {"Pong", "ErrLen"}
Wraps == {"None", "Arc", "Ref", "Box"}
Requests == {[i \in 1..n |-> 1] : n \in 0..MaxReqLen}

\* Each specification follows one implementer.  Spec: every kind of
\* implementer behind every wrapper, one call at a time.
Lim == [insts |-> 1, allocs |-> MaxAllocs, vals |-> 2, futs |-> 1,
        calls |-> MaxCalls, boxed |-> MaxBoxedCalls, susp |-> MaxSuspend,
        reqs |-> Requests, kinds |-> Kinds, wraps |-> Wraps]
\* SpecD: concurrent calls on the handles of one implementer.
LimD == [insts |-> 1, allocs |-> 1, vals |-> 2, futs |-> MaxFuts,
         calls |-> MaxFuts, boxed |-> 1, susp |-> 1,
         reqs |-> {<<>>, <<1>>}, kinds |-> {"ErrLen"}, wraps |-> {"None"}]
\* SpecS: the clones of the handle of one counting implementer.
LimS == [insts |-> 1, allocs |-> 1, vals |-> MaxClones, futs |-> 2,
         calls |-> MaxCalls, boxed |-> 1, susp |-> 0,
         reqs |-> {<<>>}, kinds |-> {"Counter"}, wraps |-> {"None"}]
\* SpecC: scenario C, the clones of one handle.
LimC == [insts |-> 1, allocs |-> 1, vals |-> ScnVals, futs |-> 1,
         calls |-> MaxCalls, boxed |-> 1, susp |-> 0,
         reqs |-> {<<>>}, kinds |-> {"Counter"}, wraps |-> {"None"}]

(***************************************************************************)
(* Values.                                                                 *)
(***************************************************************************)
\* Result<Response, Error>: ok says which, s and n are the payload.
Ok(s, n) == [ok |-> TRUE, s |-> s, n |-> n]
Err(s, n) == [ok |-> FALSE, s |-> s, n |-> n]
NoOut == [ok |-> FALSE, s |-> "none", n |-> 0]

\* A value of a type that implements Service: a wrapper (or none) around an
\* implementer instance, or a BoxService pointing at an allocation.
InstTerm(w, i) == [wrap |-> w, tag |-> "inst", id |-> i]
HandleTerm(a) == [wrap |-> "None", tag |-> "handle", id |-> a]

IsHandle(v) == vals[v].t.tag = "handle"
Live(v) == v \in 1..Len(vals) /\ vals[v].live
Borrowed(v) == \E f \in DOMAIN futs : futs[f].st = "pending" /\ futs[f].via = v

(***************************************************************************)
(* The implementers: the type parameter of the code, instantiated with the *)
(* implementers of the specification's scenarios.                          *)
(***************************************************************************)
ImplOutcome(kind, req, count, flip) ==
    CASE kind = "Pong" -> Ok("pong", 0)
      [] kind = "ErrLen" -> Err("len", Len(req))
      [] kind = "Counter" -> Ok("count", count)
      [] OTHER -> IF flip THEN Ok("flaky", 0) ELSE Err("flaky", 0)

FlipChoices(kind) == IF kind = "Flaky" THEN BOOLEAN ELSE {TRUE}

\* S::serve(&self, req): the implementer's in-progress operation.
ImplServe(i, req) == [inst |-> i, ireq |-> req, boxes |-> 0]

\* One poll of the implementer's operation: it suspends while it has
\* suspension points left, then completes with its outcome.
ImplPoll(fr, I, flip) ==
    IF fr.left > 0
    THEN [fut |-> [fr EXCEPT !.left = @ - 1, !.ipolls = @ + 1],
          I |-> I, ready |-> FALSE, out |-> NoOut]
    ELSE LET i == fr.inst
             o == ImplOutcome(I[i].kind, fr.ireq, I[i].count, flip)
         IN [fut |-> [fr EXCEPT !.ipolls = @ + 1, !.ires = o],
             I |-> [I EXCEPT ![i].count =
                        IF I[i].kind = "Counter" THEN @ + 1 ELSE @],
             ready |-> TRUE, out |-> o]

(***************************************************************************)
(* serve: the trait's forwarding impls, the adapter and the handle.        *)
(***************************************************************************)
RECURSIVE ServiceServe(_, _)

\* A forwarding impl that serves a default request instead of the caller's.
ArcServeDefaultReq(t, req) == ServiceServe([t EXCEPT !.wrap = "None"], <<>>)

\* impl Service for Arc<S>: self.as_ref().serve(req)
ArcServe(t, req) == ServiceServe([t EXCEPT !.wrap = "None"], req)

\* impl Service for &'static S: (**self).serve(req)
RefServe(t, req) == ServiceServe([t EXCEPT !.wrap = "None"], req)

\* impl Service for Box<S>: self.as_ref().serve(req)
BoxServe(t, req) == ServiceServe([t EXCEPT !.wrap = "None"], req)

\* Box::pin(fut): one more heap-allocated, pinned layer around the operation.
BoxPin(fu) == [fu EXCEPT !.boxes = @ + 1]

\* An adapter that serves the request of a call already in flight.
serve_box_stale(t, req) ==
    LET P == {f \in DOMAIN futs : futs[f].st = "pending"}
    IN BoxPin(ServiceServe(t, IF P = {} THEN req
                              ELSE futs[CHOOSE f \in P : TRUE].req))

\* impl DynService for T: Box::pin(self.serve(req))
serve_box(t, req) == BoxPin(ServiceServe(t, req))

\* A handle that serves a default request instead of the caller's.
BoxServiceServeDefaultReq(t, req) == serve_box(allocs[t.id].val, <<>>)

\* impl Service for BoxService: self.inner.serve_box(req)
BoxServiceServe(t, req) == serve_box(allocs[t.id].val, req)

\* Static dispatch of serve on the type of the value.
ServiceServe(t, req) ==
    CASE t.wrap = "Arc" -> ArcServe(t, req)
      [] t.wrap = "Ref" -> RefServe(t, req)
      [] t.wrap = "Box" -> BoxServe(t, req)
      [] t.tag = "handle" -> BoxServiceServe(t, req)
      [] OTHER -> ImplServe(t.id, req)

(***************************************************************************)
(* Polling an in-progress operation.                                       *)
(***************************************************************************)
RECURSIVE FutPoll(_, _, _, _)

\* A boxed operation that turns the implementer's error into a success.
PinBoxPollSwallow(fr, depth, I, flip) ==
    LET r == FutPoll(fr, depth - 1, I, flip)
    IN IF r.ready /\ ~r.out.ok THEN [r EXCEPT !.out = Ok("swallowed", 0)] ELSE r

\* A boxed operation that yields once before it polls the implementer's.
PinBoxPollYield(fr, depth, I, flip) ==
    IF fr.opolls = 0
    THEN [fut |-> fr, I |-> I, ready |-> FALSE, out |-> NoOut]
    ELSE FutPoll(fr, depth - 1, I, flip)

\* Pin<Box<dyn Future>>::poll: polls the boxed operation.
PinBoxPoll(fr, depth, I, flip) == FutPoll(fr, depth - 1, I, flip)

FutPoll(fr, depth, I, flip) ==
    IF depth = 0 THEN ImplPoll(fr, I, flip) ELSE PinBoxPoll(fr, depth, I, flip)

\* An operation that waits for the calls issued before it.
CanPollFifo(f) ==
    f \in DOMAIN futs /\ futs[f].st = "pending" /\ futs[f].peers = {}

\* The operation returned by serve holds no lock and no queue position.
CanPoll(f) == f \in DOMAIN futs /\ futs[f].st = "pending"

(***************************************************************************)
(* Dropping: Arc's strong count and the drop of the value inside.          *)
(***************************************************************************)
RECURSIVE DropTerm(_, _, _), ArcDrop(_, _, _)

\* Drop of Arc<dyn DynService>: the last reference drops the value inside.
ArcDrop(a, A, I) ==
    LET s == A[a].strong - 1
        A1 == [A EXCEPT ![a].strong = s]
    IN IF s = 0
       THEN DropTerm(A[a].val, [A1 EXCEPT ![a].live = FALSE], I)
       ELSE [A |-> A1, I |-> I]

\* Drop of a service value: a &'static S drops nothing.
DropTerm(t, A, I) ==
    IF t.tag = "handle" THEN ArcDrop(t.id, A, I)
    ELSE IF t.wrap = "Ref" THEN [A |-> A, I |-> I]
    ELSE [A |-> A, I |-> [I EXCEPT ![t.id].alive = FALSE]]

\* A copy of the pointer that does not count the new reference.
ArcCloneNoCount(a, A) == A

\* Arc::clone: one more strong reference to the same allocation.
ArcClone(a, A) == [A EXCEPT ![a].strong = @ + 1]

\* Arc::new(service)
ArcNew(t, A) == Append(A, [strong |-> 1, live |-> TRUE, val |-> t])

(***************************************************************************)
(* The operations.                                                         *)
(***************************************************************************)
Init ==
    /\ insts = <<>>
    /\ allocs = <<>>
    /\ vals = <<>>
    /\ futs = <<>>
    /\ nBoxed = 0

\* The caller constructs an implementer, bare or behind an ownership wrapper.
NewService(L, kind, w) ==
    /\ Len(insts) < L.insts
    /\ Len(vals) < L.vals
    /\ insts' = Append(insts, [kind |-> kind, alive |-> TRUE, count |-> 0,
                               served |-> 0])
    /\ vals' = Append(vals, [live |-> TRUE, t |-> InstTerm(w, Len(insts) + 1),
                             origin |-> Len(insts) + 1])
    /\ UNCHANGED <<allocs, futs, nBoxed>>

\* A &'static S is Copy: passing it by value copies it, the caller keeps it,
\* and a copy needs no more than the shared borrow a pending call holds.
\* Every other service value is moved, which no borrow may outlive.
IsCopy(v) == vals[v].t.tag = "inst" /\ vals[v].t.wrap = "Ref"
CanMove(v) == IsCopy(v) \/ ~Borrowed(v)

\* BoxService::new(service): Self { inner: Arc::new(service) }.  The handle
\* takes the place of a moved value and is held beside a copied one.
BoxServiceNew(v) ==
    /\ allocs' = ArcNew(vals[v].t, allocs)
    /\ vals' = IF IsCopy(v)
               THEN Append(vals, [live |-> TRUE, t |-> HandleTerm(Len(allocs) + 1),
                                  origin |-> vals[v].origin])
               ELSE [vals EXCEPT ![v].t = HandleTerm(Len(allocs) + 1)]
    /\ UNCHANGED <<insts, futs>>

New(L, v) ==
    /\ Live(v) /\ CanMove(v)
    /\ Len(allocs) < L.allocs
    /\ IsCopy(v) => Len(vals) < L.vals
    /\ BoxServiceNew(v)
    /\ UNCHANGED nBoxed

\* Service::boxed, the trait's default: BoxService::new(self)
ServiceBoxed(v) == BoxServiceNew(v)

\* The trait's default in place of the override: a handle around the handle.
BoxServiceBoxedDefault(v) == BoxServiceNew(v)

\* BoxService::boxed: self
BoxServiceBoxed(v) == UNCHANGED <<insts, allocs, vals, futs>>

Boxed(L, v) ==
    /\ Live(v) /\ CanMove(v)
    /\ IF IsHandle(v)
       THEN /\ nBoxed < L.boxed
            /\ nBoxed' = nBoxed + 1
            /\ BoxServiceBoxed(v)
       ELSE /\ Len(allocs) < L.allocs
            /\ IsCopy(v) => Len(vals) < L.vals
            /\ ServiceBoxed(v)
            /\ UNCHANGED nBoxed

\* A clone that copies the implementer into an allocation of its own.
BoxServiceCloneDeep(v) ==
    LET i == vals[v].origin
    IN /\ insts' = Append(insts, insts[i])
       /\ allocs' = ArcNew(InstTerm("None", Len(insts) + 1), allocs)
       /\ vals' = Append(vals, [live |-> TRUE, t |-> HandleTerm(Len(allocs) + 1),
                                origin |-> vals[v].origin])
       /\ UNCHANGED futs

\* impl Clone for BoxService: Self { inner: self.inner.clone() }
BoxServiceClone(v) ==
    /\ allocs' = ArcClone(vals[v].t.id, allocs)
    /\ vals' = Append(vals, [live |-> TRUE, t |-> HandleTerm(vals[v].t.id),
                             origin |-> vals[v].origin])
    /\ UNCHANGED <<insts, futs>>

Clone(L, v) ==
    /\ Live(v) /\ IsHandle(v)
    /\ Len(vals) < L.vals
    /\ BoxServiceClone(v)
    /\ UNCHANGED nBoxed

\* No borrow: a value may be dropped while operations started on it run.
CanDropAlways(v) == TRUE

\* A value is borrowed by the operations started on it (the '_ of serve's
\* return type), and a borrowed value can be neither dropped nor moved.
CanDrop(v) == ~Borrowed(v)

Drop(v) ==
    /\ Live(v) /\ CanDrop(v)
    /\ LET d == DropTerm(vals[v].t, allocs, insts)
       IN /\ allocs' = d.A
          /\ insts' = d.I
    /\ vals' = [vals EXCEPT ![v].live = FALSE]
    /\ UNCHANGED <<futs, nBoxed>>

\* The calls made through the values derived from one counting implementer:
\* completed ones and those in flight.
Pending == {f \in DOMAIN futs : futs[f].st = "pending"}
Calls(o) == insts[o].served
            + Cardinality({f \in Pending : vals[futs[f].via].origin = o})

\* The slot a new operation takes: the first that holds no operation in
\* progress (the result of a completed one is overwritten).
FreeSlots(L) == (1..L.futs) \ Pending
FreeSlot(L) == CHOOSE s \in FreeSlots(L) : \A u \in FreeSlots(L) : s <= u

\* serve(&self, req): returns the in-progress operation; k is the number of
\* suspension points of the implementer's serve body for this call.
Serve(L, v, req, k) ==
    /\ Live(v)
    /\ FreeSlots(L) # {}
    /\ Calls(vals[v].origin) < L.calls
    /\ LET fu == ServiceServe(vals[v].t, req)
           s == FreeSlot(L)
           rec == [st |-> "pending", via |-> v, on |-> vals[v].t, req |-> req,
                   inst |-> fu.inst, ireq |-> fu.ireq, boxes |-> fu.boxes,
                   k |-> k, left |-> k, ires |-> NoOut, res |-> NoOut,
                   opolls |-> 0, ipolls |-> 0, peers |-> Pending,
                   alone |-> /\ Len(vals) > 1
                             /\ \A u \in 1..Len(vals) : vals[u].live => u = v]
       IN futs' = [x \in DOMAIN futs \cup {s} |-> IF x = s THEN rec ELSE futs[x]]
    /\ UNCHANGED <<insts, allocs, vals, nBoxed>>

\* The operations once f is over: f no longer precedes those in progress.
Settle(F, f) == [s \in DOMAIN F |->
                   IF s # f /\ F[s].st = "pending"
                   THEN [F[s] EXCEPT !.peers = @ \ {f}] ELSE F[s]]

\* The executor polls the operation once; the result of a completed operation
\* is delivered to the caller and the operation is consumed.
Poll(f, flip) ==
    /\ CanPoll(f)
    /\ flip \in FlipChoices(insts[futs[f].inst].kind)
    /\ LET r == FutPoll(futs[f], futs[f].boxes, insts, flip)
           g == [r.fut EXCEPT !.opolls = @ + 1]
           o == vals[g.via].origin
       IN IF r.ready
          THEN /\ futs' = Settle([futs EXCEPT ![f] =
                                    [g EXCEPT !.st = "done", !.res = r.out]], f)
               /\ insts' = [r.I EXCEPT ![o].served =
                                 IF r.I[o].kind = "Counter" THEN @ + 1 ELSE @]
          ELSE /\ futs' = [futs EXCEPT ![f] = g]
               /\ insts' = r.I
    /\ UNCHANGED <<allocs, vals, nBoxed>>

\* The caller drops the operation before it completed.
Cancel(f) ==
    /\ f \in Pending
    /\ futs' = [s \in DOMAIN futs \ {f} |-> Settle(futs, f)[s]]
    /\ UNCHANGED <<insts, allocs, vals, nBoxed>>

Step(L) ==
    \/ \E kind \in L.kinds, w \in L.wraps : NewService(L, kind, w)
    \/ \E v \in 1..L.vals : New(L, v)
    \/ \E v \in 1..L.vals : Boxed(L, v)
    \/ \E v \in 1..L.vals : Clone(L, v)
    \/ \E v \in 1..L.vals : Drop(v)
    \/ \E v \in 1..L.vals, req \in L.reqs, k \in 0..L.susp : Serve(L, v, req, k)
    \/ \E f \in 1..L.futs, flip \in BOOLEAN : Poll(f, flip)
    \/ \E f \in 1..L.futs : Cancel(f)

Next == Step(Lim)
NextD == Step(LimD)
NextS == Step(LimS)
NextC == Step(LimC)

Spec == Init /\ [][Next]_vars
SpecD == Init /\ [][NextD]_vars
SpecS == Init /\ [][NextS]_vars
SpecC == Init /\ [][NextC]_vars
(***************************************************************************)
(* Properties.                                                             *)
(***************************************************************************)
Done == {f \in DOMAIN futs : futs[f].st = "done"}
OnHandle(f) == futs[f].on.tag = "handle"
OnWrapper(f) == futs[f].on.tag = "inst" /\ futs[f].on.wrap \in {"Arc", "Ref", "Box"}
KindOf(f) == insts[futs[f].inst].kind

\* The implementer instance a service value leads to.
RECURSIVE InstOf(_)
InstOf(t) == IF t.tag = "inst" THEN t.id ELSE InstOf(allocs[t.id].val)

\* The outcome of serve(req) on the value t driven to completion on its own.
RECURSIVE RunToEnd(_, _)
RunToEnd(fr, I) ==
    LET r == FutPoll(fr, fr.boxes, I, TRUE)
    IN IF r.ready THEN r.out
       ELSE RunToEnd([r.fut EXCEPT !.opolls = @ + 1], r.I)
DirectOutcome(t, req) ==
    LET fu == ServiceServe(t, req)
    IN RunToEnd([inst |-> fu.inst, ireq |-> fu.ireq, boxes |-> fu.boxes,
                 k |-> 0, left |-> 0, ires |-> NoOut, opolls |-> 0,
                 ipolls |-> 0], insts)

\* The handles that refer to allocation a: those the caller holds and those
\* stored inside a live allocation.
Refs(a) ==
    Cardinality({v \in 1..Len(vals) :
                    vals[v].live /\ IsHandle(v) /\ vals[v].t.id = a})
    + Cardinality({b \in 1..Len(allocs) :
                    /\ allocs[b].live
                    /\ allocs[b].val.tag = "handle"
                    /\ allocs[b].val.id = a})

\* C1: for a pure implementer I, a completed call I.boxed().serve(r) has the
\* outcome of I.serve(r): the same Ok or Err with the same payload.
C1_BoxedSameAsDirect ==
    \A f \in Done :
        (OnHandle(f) /\ KindOf(f) \in PureKinds)
        => futs[f].res = DirectOutcome(allocs[futs[f].on.id].val, futs[f].req)

C1_Witness ==
    \E f \in Done :
        /\ OnHandle(f)
        /\ allocs[futs[f].on.id].val.tag = "inst"
        /\ KindOf(f) = "ErrLen"
        /\ futs[f].req = <<1>>
        /\ futs[f].res = Err("len", 1)

\* C2: a call on a handle delivers exactly the result the wrapped
\* implementer produced for that call, whatever the implementer (stateful,
\* non-deterministic): nothing before the implementer produced it, and then
\* that result unchanged.
C2_HandleDeliversImplResult ==
    \A f \in DOMAIN futs :
        OnHandle(f) =>
            IF futs[f].st = "done"
            THEN futs[f].ires # NoOut /\ futs[f].res = futs[f].ires
            ELSE futs[f].res = NoOut

C2_Witness ==
    \E f \in Done :
        /\ OnHandle(f)
        /\ KindOf(f) = "Flaky"
        /\ futs[f].res = Err("flaky", 0)
        /\ futs[f].ires = Err("flaky", 0)

\* C3: a clone never creates a second implementer: every handle leads to the
\* implementer it was derived from, there are no more implementers than
\* were constructed, and a counting implementer has counted every call
\* completed through any of its handles.
C3_CloneShares ==
    /\ \A v \in 1..Len(vals) :
          vals[v].live => InstOf(vals[v].t) = vals[v].origin
    /\ Len(insts) = Cardinality({vals[v].origin : v \in 1..Len(vals)})
    /\ \A i \in 1..Len(insts) :
          insts[i].kind = "Counter" => insts[i].count = insts[i].served

C3_Witness ==
    /\ {1, 2} \subseteq Done
    /\ futs[1].via # futs[2].via
    /\ OnHandle(1) /\ OnHandle(2)
    /\ futs[1].on = futs[2].on
    /\ {futs[1].res, futs[2].res} = {Ok("count", 0), Ok("count", 1)}

\* C4: the allocation behind a handle, and the implementer in it, is alive
\* exactly while a live handle refers to it, and its reference count is the
\* number of those handles.
C4_AliveIffHandle ==
    \A a \in 1..Len(allocs) :
        /\ allocs[a].live <=> Refs(a) > 0
        /\ allocs[a].strong = Refs(a)
        /\ (allocs[a].val.tag = "inst" /\ allocs[a].val.wrap # "Ref")
           => (insts[allocs[a].val.id].alive <=> allocs[a].live)

\* Scenario C: ten handles, nine dropped, and a call made on the tenth after
\* that has completed.
C4_Witness ==
    /\ Len(vals) = 10
    /\ \A v \in 1..10 : IsHandle(v) /\ vals[v].t.id = 1 /\ (vals[v].live <=> v = 10)
    /\ allocs[1].live
    /\ insts[allocs[1].val.id].alive
    /\ \E f \in Done : futs[f].via = 10 /\ futs[f].alone /\ futs[f].res.ok

\* C5: with several calls in flight on the handles of one implementer, each
\* call reaches the implementer with its own request and completes with the
\* outcome for that request.
C5_OwnRequest ==
    \A f \in DOMAIN futs :
        OnHandle(f) =>
            /\ futs[f].ireq = futs[f].req
            /\ (futs[f].st = "done" /\ KindOf(f) \in PureKinds)
               => futs[f].res = ImplOutcome(KindOf(f), futs[f].req, 0, TRUE)

C5_Witness ==
    /\ {1, 2} \subseteq Done
    /\ OnHandle(1) /\ OnHandle(2)
    /\ futs[1].via = futs[2].via
    /\ 1 \in futs[2].peers
    /\ futs[1].req = <<>> /\ futs[2].req = <<1>>
    /\ futs[1].res = Err("len", 0) /\ futs[2].res = Err("len", 1)

\* C6: a call on an Arc<S>, a &'static S or a Box<S> reaches the held
\* implementer with the caller's request and returns its result unchanged:
\* the outcome is that of the call on the bare S.
C6_WrappersForward ==
    \A f \in DOMAIN futs :
        OnWrapper(f) =>
            /\ futs[f].ireq = futs[f].req
            /\ futs[f].inst = futs[f].on.id
            /\ futs[f].boxes = 0
            /\ futs[f].st = "done" =>
                  /\ futs[f].res = futs[f].ires
                  /\ KindOf(f) \in PureKinds =>
                        futs[f].res = DirectOutcome(InstTerm("None", futs[f].on.id),
                                                    futs[f].req)

C6_Witness ==
    \E f \in Done :
        /\ OnWrapper(f)
        /\ futs[f].on.wrap = "Arc"
        /\ KindOf(f) = "ErrLen"
        /\ futs[f].req = <<1>>
        /\ futs[f].res = Err("len", 1)

\* C7: boxed() on a handle changes nothing: no allocation, no nested handle,
\* no change of a reference count; the handle is the one it was.
C7_BoxedIdentity ==
    [][nBoxed' # nBoxed => UNCHANGED <<insts, allocs, vals, futs>>]_vars

\* h.boxed().boxed(): two calls on the only value there ever was.
C7_Witness ==
    /\ nBoxed = 2
    /\ Len(vals) = 1 /\ Live(1) /\ IsHandle(1)
    /\ Len(allocs) = 1 /\ allocs[1].strong = 1 /\ allocs[1].val.tag = "inst"

\* C8: a call in progress can be polled whatever the state of the calls
\* issued before it, and completes on that poll when its implementer has no
\* suspension left: the handle imposes no order of completion.
C8_NoOrdering ==
    \A f \in Pending :
        ENABLED (Poll(f, TRUE) /\ (futs[f].left = 0 => futs'[f].st = "done"))

\* The call issued second has completed, the one issued first has not.
C8_Witness ==
    /\ 1 \in Pending /\ 2 \in Done
    /\ 1 \in futs[2].peers
    /\ futs[1].via = futs[2].via
    /\ OnHandle(1)

\* C9: every poll of the operation polls the implementer's operation, and
\* an operation of k suspension points completes on poll k + 1, through
\* every wrapper and every layer of handles.
C9_NoAddedSuspension ==
    \A f \in DOMAIN futs :
        /\ futs[f].opolls = futs[f].ipolls
        /\ futs[f].st = "done" => futs[f].opolls = futs[f].k + 1
        /\ futs[f].st = "pending" =>
              /\ futs[f].opolls = futs[f].k - futs[f].left
              /\ futs[f].ires = NoOut

C9_Witness ==
    \E f \in Done :
        /\ OnHandle(f)
        /\ futs[f].boxes = 2
        /\ futs[f].k = 1
        /\ futs[f].opolls = 2

\* C10: while a call is in progress the value it was started on is held,
\* unchanged, and the allocation and the implementer behind it are alive.
C10_AliveWhileInFlight ==
    \A f \in Pending :
        /\ Live(futs[f].via)
        /\ vals[futs[f].via].t = futs[f].on
        /\ insts[futs[f].inst].alive
        /\ OnHandle(f) =>
              allocs[futs[f].on.id].live /\ allocs[futs[f].on.id].strong > 0

\* A call in progress on the last handle left, after its clone was dropped.
C10_Witness ==
    \E f \in Pending :
        /\ OnHandle(f)
        /\ futs[f].opolls > 0
        /\ allocs[futs[f].on.id].strong = 1
        /\ \E u \in 1..Len(vals) : ~vals[u].live /\ vals[u].t = futs[f].on
====
